---- MODULE Spec2Model ----
(***************************************************************************)
(* A model of the 2Q cache of src/lib.rs (crate cache_2q).                 *)
(*                                                                         *)
(* The cache owns three VecDeques: frequent and recent hold CacheEntry     *)
(* {key, value}, ghost holds bare keys.  Front of a deque is index 1 here  *)
(* (index 0 in Rust); every positional index of the source is therefore    *)
(* shifted by one, and 0 stands for "not found".                           *)
(***************************************************************************)
EXTENDS Integers, Sequences, FiniteSets, TLC

\* ---- bounds of the model ----
MaxKey == 3
MaxSmallSize == 3
\* the size used by the crate's tests and doc examples: Cache::new(8)
TestSize == 8

Keys == 1..MaxKey
\* V carries no trait bound (impl<K: Eq, V> Cache<K, V>): the code can only move
\* and replace values, never inspect them, so two distinguishable values stand
\* for all of them.  NoVal fills the value slot of a call that takes no value.
Vals == {"a", "b"}
NoVal == "-"
Sizes == (1..MaxSmallSize) \cup {TestSize}

\* constructed: Cache::new returned a cache (it panics instead when size is 0)
VARIABLES frequent, recent, ghost, max_frequent, max_recent, max_ghost,
          size, constructed, view, last

vars == <<frequent, recent, ghost, max_frequent, max_recent, max_ghost,
          size, constructed, view, last>>

\* ---- Option<T> ----
None == <<>>
Some(x) == <<x>>

\* ---- std helpers ----
max(a, b) == IF a >= b THEN a ELSE b

\* VecDeque::push_front
push_front(s, x) == <<x>> \o s

\* VecDeque::pop_back: removes the last element, a no-op on an empty deque
pop_back(s) == IF Len(s) = 0 THEN s ELSE SubSeq(s, 1, Len(s) - 1)

\* VecDeque::back
back(s) == s[Len(s)]

\* VecDeque::remove(i): the deque without its i-th element
remove_at(s, i) == SubSeq(s, 1, i - 1) \o SubSeq(s, i + 1, Len(s))

\* iter().position(|entry| entry.key == key): first index holding key, 0 if none
position(s, key) ==
    IF \E i \in 1..Len(s) : s[i].key = key
    THEN CHOOSE i \in 1..Len(s) : s[i].key = key /\ \A j \in 1..(i - 1) : s[j].key # key
    ELSE 0

\* ghost.iter().position(|old_key| old_key == key)
position_key(s, key) ==
    IF \E i \in 1..Len(s) : s[i] = key
    THEN CHOOSE i \in 1..Len(s) : s[i] = key /\ \A j \in 1..(i - 1) : s[j] # key
    ELSE 0

CacheEntry(k, v) == [key |-> k, value |-> v]

\* the three deques of the cache, as one value
self == [frequent |-> frequent, recent |-> recent, ghost |-> ghost]

\* ---- Cache::new ----
new_max_recent(sz) == max(1, sz \div 4)
new_max_frequent(sz) == sz - new_max_recent(sz)
new_max_ghost(sz) == sz \div 2

\* Cache::new without the assert: size 0 yields a cache like any other size
new_no_assert(sz) ==
    [ok |-> TRUE,
     frequent |-> <<>>, recent |-> <<>>, ghost |-> <<>>,
     max_frequent |-> new_max_frequent(sz),
     max_recent |-> new_max_recent(sz),
     max_ghost |-> new_max_ghost(sz)]

\* assert!(size > 0) panics, and then there is no cache: ok is FALSE and the
\* fields are fillers no operation can reach
new(sz) ==
    IF sz > 0
    THEN [ok |-> TRUE,
          frequent |-> <<>>, recent |-> <<>>, ghost |-> <<>>,
          max_frequent |-> new_max_frequent(sz),
          max_recent |-> new_max_recent(sz),
          max_ghost |-> new_max_ghost(sz)]
    ELSE [ok |-> FALSE,
          frequent |-> <<>>, recent |-> <<>>, ghost |-> <<>>,
          max_frequent |-> 0, max_recent |-> 0, max_ghost |-> 0]

\* ---- the views ----
NoView == [tag |-> "None", kind |-> "None", idx |-> 0, key |-> 0]
OccupiedEntry(kind, idx) == [tag |-> "Occupied", kind |-> kind, idx |-> idx, key |-> 0]
VacantEntry(key, kind, idx) == [tag |-> "Vacant", kind |-> kind, idx |-> idx, key |-> key]

\* ---- Cache::len, is_empty ----
len(c) == Len(c.recent) + Len(c.frequent)
is_empty(c) == Len(c.recent) = 0 /\ Len(c.frequent) = 0

\* ---- Cache::contains_key ----
contains_key(c, key) == position(c.recent, key) # 0 \/ position(c.frequent, key) # 0

\* Cache::peek scanning frequent only
peek_frequent_only(c, key) ==
    LET j == position(c.frequent, key)
    IN IF j # 0 THEN Some(c.frequent[j].value) ELSE None

\* ---- Cache::peek ----
peek(c, key) ==
    LET i == position(c.recent, key)
        j == position(c.frequent, key)
    IN IF i # 0 THEN Some(c.recent[i].value)
       ELSE IF j # 0 THEN Some(c.frequent[j].value)
       ELSE None

\* Cache::get promoting a hit in recent: the entry moves to the front of frequent
get_promote_recent(c, key) ==
    IF position(c.recent, key) # 0
    THEN LET i == position(c.recent, key)
             f0 == IF Len(c.frequent) + 1 > max_frequent THEN pop_back(c.frequent) ELSE c.frequent
         IN [cache |-> [c EXCEPT !.recent = remove_at(c.recent, i),
                                 !.frequent = push_front(f0, c.recent[i])],
             ret |-> Some(c.recent[i].value)]
    ELSE IF position(c.frequent, key) # 0
    THEN LET i == position(c.frequent, key)
             old == c.frequent[i]
             f == push_front(remove_at(c.frequent, i), old)
         IN [cache |-> [c EXCEPT !.frequent = f], ret |-> Some(f[1].value)]
    ELSE [cache |-> c, ret |-> None]

\* Cache::get whose miss on a key in ghost uses the ghost entry up
get_consume_ghost(c, key) ==
    IF position(c.recent, key) # 0
    THEN [cache |-> c, ret |-> Some(c.recent[position(c.recent, key)].value)]
    ELSE IF position(c.frequent, key) # 0
    THEN LET i == position(c.frequent, key)
             old == c.frequent[i]
             f == push_front(remove_at(c.frequent, i), old)
         IN [cache |-> [c EXCEPT !.frequent = f], ret |-> Some(f[1].value)]
    ELSE IF position_key(c.ghost, key) # 0
    THEN [cache |-> [c EXCEPT !.ghost = remove_at(c.ghost, position_key(c.ghost, key))],
          ret |-> None]
    ELSE [cache |-> c, ret |-> None]

\* get with the frequent hit answered in place, like a hit in recent
get_no_promote(c, key) ==
    [cache |-> c, ret |-> peek(c, key)]

\* ---- Cache::get: result is the cache afterwards and the returned Option ----
get(c, key) ==
    IF position(c.recent, key) # 0
    THEN [cache |-> c, ret |-> Some(c.recent[position(c.recent, key)].value)]
    ELSE IF position(c.frequent, key) # 0
    THEN LET i == position(c.frequent, key)
             old == c.frequent[i]
             f == push_front(remove_at(c.frequent, i), old)
         IN [cache |-> [c EXCEPT !.frequent = f], ret |-> Some(f[1].value)]
    ELSE [cache |-> c, ret |-> None]

\* Cache::get_mut handing out the slot at the index the hit was found at, after
\* the hit has moved to the front
get_mut_stale_index(c, key, w) ==
    IF position(c.recent, key) # 0
    THEN LET i == position(c.recent, key)
         IN [cache |-> [c EXCEPT !.recent[i].value = w], ret |-> Some(c.recent[i].value)]
    ELSE IF position(c.frequent, key) # 0
    THEN LET i == position(c.frequent, key)
             old == c.frequent[i]
             f == push_front(remove_at(c.frequent, i), old)
         IN [cache |-> [c EXCEPT !.frequent = [f EXCEPT ![i].value = w]],
             ret |-> Some(f[i].value)]
    ELSE [cache |-> c, ret |-> None]

\* Cache::get_mut updating a frequent hit where it is
get_mut_no_promote(c, key, w) ==
    IF position(c.recent, key) # 0
    THEN LET i == position(c.recent, key)
         IN [cache |-> [c EXCEPT !.recent[i].value = w], ret |-> Some(c.recent[i].value)]
    ELSE IF position(c.frequent, key) # 0
    THEN LET i == position(c.frequent, key)
         IN [cache |-> [c EXCEPT !.frequent[i].value = w], ret |-> Some(c.frequent[i].value)]
    ELSE [cache |-> c, ret |-> None]

\* ---- Cache::get_mut; w is the value the caller stores through the &mut V ----
get_mut(c, key, w) ==
    IF position(c.recent, key) # 0
    THEN LET i == position(c.recent, key)
         IN [cache |-> [c EXCEPT !.recent[i].value = w], ret |-> Some(c.recent[i].value)]
    ELSE IF position(c.frequent, key) # 0
    THEN LET i == position(c.frequent, key)
             old == c.frequent[i]
             f == push_front(remove_at(c.frequent, i), old)
         IN [cache |-> [c EXCEPT !.frequent = [f EXCEPT ![1].value = w]],
             ret |-> Some(f[1].value)]
    ELSE [cache |-> c, ret |-> None]

\* peek_entry without the scan of ghost: every key that is not live is Unknown
peek_entry_skip_ghost(c, key) ==
    LET f == position(c.frequent, key)
        r == position(c.recent, key)
    IN IF f # 0 THEN OccupiedEntry("Frequent", f)
       ELSE IF r # 0 THEN OccupiedEntry("Recent", r)
       ELSE VacantEntry(key, "Unknown", 0)

\* peek_entry without the scan of recent
peek_entry_skip_recent(c, key) ==
    LET f == position(c.frequent, key)
        g == position_key(c.ghost, key)
    IN IF f # 0 THEN OccupiedEntry("Frequent", f)
       ELSE IF g # 0 THEN VacantEntry(key, "Ghost", g)
       ELSE VacantEntry(key, "Unknown", 0)

\* ---- Cache::peek_entry: classification, frequent then recent then ghost ----
peek_entry(c, key) ==
    LET f == position(c.frequent, key)
        r == position(c.recent, key)
        g == position_key(c.ghost, key)
    IN IF f # 0 THEN OccupiedEntry("Frequent", f)
       ELSE IF r # 0 THEN OccupiedEntry("Recent", r)
       ELSE IF g # 0 THEN VacantEntry(key, "Ghost", g)
       ELSE VacantEntry(key, "Unknown", 0)

\* Cache::entry moving the frequent hit but keeping the index it was found at
entry_stale_index(c, key) ==
    LET e == peek_entry(c, key)
    IN IF e.tag = "Occupied" /\ e.kind = "Frequent"
       THEN LET old_entry == c.frequent[e.idx]
            IN [cache |-> [c EXCEPT !.frequent = push_front(remove_at(c.frequent, e.idx), old_entry)],
                view |-> e]
       ELSE [cache |-> c, view |-> e]

\* Cache::entry without the move of a frequent hit
entry_no_promote(c, key) ==
    [cache |-> c, view |-> peek_entry(c, key)]

\* ---- Cache::entry: peek_entry, then a frequent hit is moved to the front ----
entry(c, key) ==
    LET e == peek_entry(c, key)
    IN IF e.tag = "Occupied" /\ e.kind = "Frequent"
       THEN LET old_entry == c.frequent[e.idx]
            IN [cache |-> [c EXCEPT !.frequent = push_front(remove_at(c.frequent, e.idx), old_entry)],
                view |-> [e EXCEPT !.idx = 1]]
       ELSE [cache |-> c, view |-> e]

\* ---- OccupiedEntry::entry / entry_mut: the slot the view's index designates ----
OccupiedEntry_entry(c, e) ==
    IF e.kind = "Recent" THEN c.recent[e.idx] ELSE c.frequent[e.idx]

\* ---- OccupiedEntry::key, get ----
OccupiedEntry_key(c, e) == OccupiedEntry_entry(c, e).key
OccupiedEntry_get(c, e) == OccupiedEntry_entry(c, e).value

\* OccupiedEntry::insert answering with the value it has just stored
OccupiedEntry_insert_returns_new(c, e, value) ==
    [cache |-> IF e.kind = "Recent" THEN [c EXCEPT !.recent[e.idx].value = value]
                                    ELSE [c EXCEPT !.frequent[e.idx].value = value],
     ret |-> value]

\* ---- OccupiedEntry::insert: mem::replace(self.get_mut(), value) ----
OccupiedEntry_insert(c, e, value) ==
    [cache |-> IF e.kind = "Recent" THEN [c EXCEPT !.recent[e.idx].value = value]
                                    ELSE [c EXCEPT !.frequent[e.idx].value = value],
     ret |-> OccupiedEntry_get(c, e)]

\* ---- OccupiedEntry::remove_entry ----
OccupiedEntry_remove_entry(c, e) ==
    IF e.kind = "Recent"
    THEN [cache |-> [c EXCEPT !.recent = remove_at(c.recent, e.idx)],
          ret |-> <<c.recent[e.idx].key, c.recent[e.idx].value>>]
    ELSE [cache |-> [c EXCEPT !.frequent = remove_at(c.frequent, e.idx)],
          ret |-> <<c.frequent[e.idx].key, c.frequent[e.idx].value>>]

\* the Ghost case leaving the promoted key in ghost
VacantEntry_insert_Ghost_keep_ghost(c, e, value) ==
    LET f0 == IF Len(c.frequent) + 1 > max_frequent THEN pop_back(c.frequent) ELSE c.frequent
        f == push_front(f0, CacheEntry(e.key, value))
    IN [cache |-> [c EXCEPT !.frequent = f], ret |-> f[1].value]

\* the Ghost case demoting the entry it evicts from frequent: its key goes to ghost
VacantEntry_insert_Ghost_demote(c, e, value) ==
    LET g == remove_at(c.ghost, e.idx)
        full == Len(c.frequent) + 1 > max_frequent /\ Len(c.frequent) > 0
        f0 == IF Len(c.frequent) + 1 > max_frequent THEN pop_back(c.frequent) ELSE c.frequent
        g1 == IF full THEN push_front(g, back(c.frequent).key) ELSE g
        f == push_front(f0, CacheEntry(e.key, value))
    IN [cache |-> [c EXCEPT !.ghost = g1, !.frequent = f], ret |-> f[1].value]

\* the Ghost case pushing onto frequent without making room
VacantEntry_insert_Ghost_no_evict(c, e, value) ==
    LET g == remove_at(c.ghost, e.idx)
        f == push_front(c.frequent, CacheEntry(e.key, value))
    IN [cache |-> [c EXCEPT !.ghost = g, !.frequent = f], ret |-> f[1].value]

\* ---- VacantEntry::insert, VacantKind::Ghost(idx) ----
VacantEntry_insert_Ghost(c, e, value) ==
    LET g == remove_at(c.ghost, e.idx)
        f0 == IF Len(c.frequent) + 1 > max_frequent THEN pop_back(c.frequent) ELSE c.frequent
        f == push_front(f0, CacheEntry(e.key, value))
    IN [cache |-> [c EXCEPT !.ghost = g, !.frequent = f], ret |-> f[1].value]

\* the Unknown case evicting from recent one insert too late (len > max_recent)
VacantEntry_insert_Unknown_late_evict(c, e, value) ==
    LET evict == Len(c.recent) > max_recent
        r0 == IF evict THEN pop_back(c.recent) ELSE c.recent
        g0 == IF evict /\ Len(c.ghost) + 1 > max_ghost THEN pop_back(c.ghost) ELSE c.ghost
        g == IF evict THEN push_front(g0, back(c.recent).key) ELSE c.ghost
        r == push_front(r0, CacheEntry(e.key, value))
    IN [cache |-> [c EXCEPT !.ghost = g, !.recent = r], ret |-> r[1].value]

\* the Unknown case making room in the whole cache: with recent full it also
\* drops the back of frequent
VacantEntry_insert_Unknown_evict_frequent(c, e, value) ==
    LET evict == Len(c.recent) + 1 > max_recent /\ Len(c.recent) > 0
        r0 == IF Len(c.recent) + 1 > max_recent THEN pop_back(c.recent) ELSE c.recent
        g0 == IF evict /\ Len(c.ghost) + 1 > max_ghost THEN pop_back(c.ghost) ELSE c.ghost
        g == IF evict THEN push_front(g0, back(c.recent).key) ELSE c.ghost
        r == push_front(r0, CacheEntry(e.key, value))
        f == IF evict THEN pop_back(c.frequent) ELSE c.frequent
    IN [cache |-> [c EXCEPT !.ghost = g, !.recent = r, !.frequent = f], ret |-> r[1].value]

\* the Unknown case putting the evicted key at the back of ghost
VacantEntry_insert_Unknown_ghost_back(c, e, value) ==
    LET evict == Len(c.recent) + 1 > max_recent /\ Len(c.recent) > 0
        r0 == IF Len(c.recent) + 1 > max_recent THEN pop_back(c.recent) ELSE c.recent
        g0 == IF evict /\ Len(c.ghost) + 1 > max_ghost THEN pop_back(c.ghost) ELSE c.ghost
        g == IF evict THEN Append(g0, back(c.recent).key) ELSE c.ghost
        r == push_front(r0, CacheEntry(e.key, value))
    IN [cache |-> [c EXCEPT !.ghost = g, !.recent = r], ret |-> r[1].value]

\* the Unknown case evicting the front (newest) entry of recent
VacantEntry_insert_Unknown_pop_front(c, e, value) ==
    LET evict == Len(c.recent) + 1 > max_recent /\ Len(c.recent) > 0
        r0 == IF evict THEN Tail(c.recent) ELSE c.recent
        g0 == IF evict /\ Len(c.ghost) + 1 > max_ghost THEN pop_back(c.ghost) ELSE c.ghost
        g == IF evict THEN push_front(g0, c.recent[1].key) ELSE c.ghost
        r == push_front(r0, CacheEntry(e.key, value))
    IN [cache |-> [c EXCEPT !.ghost = g, !.recent = r], ret |-> r[1].value]

\* ---- VacantEntry::insert, VacantKind::Unknown ----
\* recent.pop_back() yields Some exactly when recent is not empty
VacantEntry_insert_Unknown(c, e, value) ==
    LET evict == Len(c.recent) + 1 > max_recent /\ Len(c.recent) > 0
        r0 == IF Len(c.recent) + 1 > max_recent THEN pop_back(c.recent) ELSE c.recent
        g0 == IF evict /\ Len(c.ghost) + 1 > max_ghost THEN pop_back(c.ghost) ELSE c.ghost
        g == IF evict THEN push_front(g0, back(c.recent).key) ELSE c.ghost
        r == push_front(r0, CacheEntry(e.key, value))
    IN [cache |-> [c EXCEPT !.ghost = g, !.recent = r], ret |-> r[1].value]

\* ---- VacantEntry::insert: the eviction policy ----
VacantEntry_insert(c, e, value) ==
    IF e.kind = "Ghost"
    THEN VacantEntry_insert_Ghost(c, e, value)
    ELSE VacantEntry_insert_Unknown(c, e, value)

\* Cache::insert leaving the stored value of a live key as it is
insert_keep_old(c, key, value) ==
    LET e == entry(c, key)
    IN IF e.view.tag = "Occupied"
       THEN [cache |-> e.cache, ret |-> Some(OccupiedEntry_get(e.cache, e.view))]
       ELSE [cache |-> VacantEntry_insert(e.cache, e.view, value).cache, ret |-> None]

\* ---- Cache::insert ----
insert(c, key, value) ==
    LET e == entry(c, key)
    IN IF e.view.tag = "Occupied"
       THEN LET r == OccupiedEntry_insert(e.cache, e.view, value)
            IN [cache |-> r.cache, ret |-> Some(r.ret)]
       ELSE [cache |-> VacantEntry_insert(e.cache, e.view, value).cache, ret |-> None]

\* Cache::remove treating the removal as an eviction: the key goes to the front of ghost
remove_to_ghost(c, key) ==
    IF position(c.recent, key) # 0
    THEN LET i == position(c.recent, key)
         IN [cache |-> [c EXCEPT !.recent = remove_at(c.recent, i),
                                 !.ghost = push_front(c.ghost, key)],
             ret |-> Some(c.recent[i].value)]
    ELSE IF position(c.frequent, key) # 0
    THEN LET i == position(c.frequent, key)
         IN [cache |-> [c EXCEPT !.frequent = remove_at(c.frequent, i)], ret |-> Some(c.frequent[i].value)]
    ELSE [cache |-> c, ret |-> None]

\* ---- Cache::remove ----
remove(c, key) ==
    IF position(c.recent, key) # 0
    THEN LET i == position(c.recent, key)
         IN [cache |-> [c EXCEPT !.recent = remove_at(c.recent, i)], ret |-> Some(c.recent[i].value)]
    ELSE IF position(c.frequent, key) # 0
    THEN LET i == position(c.frequent, key)
         IN [cache |-> [c EXCEPT !.frequent = remove_at(c.frequent, i)], ret |-> Some(c.frequent[i].value)]
    ELSE [cache |-> c, ret |-> None]

\* ---- Cache::clear ----
clear(c) == [frequent |-> <<>>, recent |-> <<>>, ghost |-> <<>>]

\* Entry::or_insert storing the default in an occupied entry too
or_insert_overwrite(c, e, default) ==
    IF e.tag = "Occupied"
    THEN [cache |-> OccupiedEntry_insert(c, e, default).cache, ret |-> default]
    ELSE VacantEntry_insert(c, e, default)

\* ---- Entry::or_insert / or_insert_with: into_mut() when occupied, insert(default) when vacant ----
or_insert(c, e, default) ==
    IF e.tag = "Occupied"
    THEN [cache |-> c, ret |-> OccupiedEntry_get(c, e)]
    ELSE VacantEntry_insert(c, e, default)

\* ---- OccupiedEntry::get_mut; w is the value the caller stores through the &mut V ----
OccupiedEntry_get_mut(c, e, w) == OccupiedEntry_insert(c, e, w)

\* ---- the history of promoting touches: the keys of frequent, the most
\*      recently touched first.  A get, get_mut, entry or insert that hits a key
\*      in frequent touches it; a vacant insert of a key in ghost touches it
\*      and, frequent being full, forgets the key touched longest ago; a
\*      removal from frequent forgets the key, clear forgets all.  peek,
\*      contains_key, peek_entry and the operations of a view touch nothing ----
Touch(lru, op, key, kind) ==
    LET without == SelectSeq(lru, LAMBDA x : x # key)
    IN IF op \in {"get", "get_mut", "entry", "insert"} /\ kind = "Frequent"
       THEN <<key>> \o without
       ELSE IF op \in {"insert", "VacantEntry::insert", "or_insert"} /\ kind = "Ghost"
       THEN <<key>> \o (IF Len(lru) > 0 /\ Len(lru) + 1 > max_frequent
                        THEN SubSeq(lru, 1, Len(lru) - 1)
                        ELSE lru)
       ELSE IF op \in {"remove", "OccupiedEntry::remove_entry"} /\ kind = "Frequent"
       THEN without
       ELSE IF op = "clear"
       THEN <<>>
       ELSE lru

\* ---- the record of the last call: its name, arguments and result, the
\*      classification (peek_entry) of its key when it was made, and the cache
\*      and the view it was made on ----
Call(op, key, value, ret, kind) ==
    [op |-> op, key |-> key, value |-> value, ret |-> ret, kind |-> kind,
     pre |-> self, pre_view |-> view,
     lru |-> Touch(last.lru, op, key, kind)]

Classify(key) == peek_entry(self, key).kind

Apply(c) ==
    /\ frequent' = c.frequent
    /\ recent' = c.recent
    /\ ghost' = c.ghost
    /\ UNCHANGED <<max_frequent, max_recent, max_ghost, size, constructed>>

\* ---- the outcome of Cache::new(sz) ----
Init ==
    \E sz \in {0} \cup Sizes :
        /\ size = sz
        /\ constructed = new(sz).ok
        /\ frequent = new(sz).frequent
        /\ recent = new(sz).recent
        /\ ghost = new(sz).ghost
        /\ max_recent = new(sz).max_recent
        /\ max_frequent = new(sz).max_frequent
        /\ max_ghost = new(sz).max_ghost
        /\ view = NoView
        /\ last = [op |-> "new", key |-> 0, value |-> NoVal, ret |-> None, kind |-> "None",
                    pre |-> [frequent |-> <<>>, recent |-> <<>>, ghost |-> <<>>],
                    pre_view |-> NoView, lru |-> <<>>]

\* the cache exists and no view borrows it
Idle == constructed /\ view.tag = "None"

\* ---- operations on the cache; none can run while a view borrows it ----
ContainsKey(k) ==
    /\ Idle
    /\ Apply(self)
    /\ view' = view
    /\ last' = Call("contains_key", k, NoVal, Some(contains_key(self, k)), Classify(k))

Peek(k) ==
    /\ Idle
    /\ Apply(self)
    /\ view' = view
    /\ last' = Call("peek", k, NoVal, peek(self, k), Classify(k))

Get(k) ==
    /\ Idle
    /\ LET r == get(self, k)
       IN /\ Apply(r.cache)
          /\ last' = Call("get", k, NoVal, r.ret, Classify(k))
    /\ view' = view

GetMut(k, w) ==
    /\ Idle
    /\ LET r == get_mut(self, k, w)
       IN /\ Apply(r.cache)
          /\ last' = Call("get_mut", k, w, r.ret, Classify(k))
    /\ view' = view

Insert(k, v) ==
    /\ Idle
    /\ LET r == insert(self, k, v)
       IN /\ Apply(r.cache)
          /\ last' = Call("insert", k, v, r.ret, Classify(k))
    /\ view' = view

Remove(k) ==
    /\ Idle
    /\ LET r == remove(self, k)
       IN /\ Apply(r.cache)
          /\ last' = Call("remove", k, NoVal, r.ret, Classify(k))
    /\ view' = view

Clear ==
    /\ Idle
    /\ Apply(clear(self))
    /\ view' = view
    /\ last' = Call("clear", 0, NoVal, None, "None")

EntryOp(k) ==
    /\ Idle
    /\ LET r == entry(self, k)
       IN /\ Apply(r.cache)
          /\ view' = r.view
          /\ last' = Call("entry", k, NoVal, None, r.view.kind)

PeekEntry(k) ==
    /\ Idle
    /\ Apply(self)
    /\ LET e == peek_entry(self, k)
       IN /\ view' = e
          /\ last' = Call("peek_entry", k, NoVal, None, e.kind)

\* ---- operations on a live view ----
OccGet ==
    /\ view.tag = "Occupied"
    /\ Apply(self)
    /\ view' = view
    /\ last' = Call("OccupiedEntry::get", last.key, NoVal,
                    <<OccupiedEntry_key(self, view), OccupiedEntry_get(self, view)>>, view.kind)

OccGetMut(w) ==
    /\ view.tag = "Occupied"
    /\ LET r == OccupiedEntry_get_mut(self, view, w)
       IN /\ Apply(r.cache)
          /\ last' = Call("OccupiedEntry::get_mut", last.key, w, Some(r.ret), view.kind)
    /\ view' = view

OccInsert(v) ==
    /\ view.tag = "Occupied"
    /\ LET r == OccupiedEntry_insert(self, view, v)
       IN /\ Apply(r.cache)
          /\ last' = Call("OccupiedEntry::insert", last.key, v, Some(r.ret), view.kind)
    /\ view' = view

OccRemoveEntry ==
    /\ view.tag = "Occupied"
    /\ LET r == OccupiedEntry_remove_entry(self, view)
       IN /\ Apply(r.cache)
          /\ last' = Call("OccupiedEntry::remove_entry", last.key, NoVal, r.ret, view.kind)
    /\ view' = NoView

OrInsert(default) ==
    /\ view.tag # "None"
    /\ LET r == or_insert(self, view, default)
       IN /\ Apply(r.cache)
          /\ last' = Call("or_insert", last.key, default, Some(r.ret), view.kind)
    /\ view' = NoView

VacInsert(v) ==
    /\ view.tag = "Vacant"
    /\ LET r == VacantEntry_insert(self, view, v)
       IN /\ Apply(r.cache)
          /\ last' = Call("VacantEntry::insert", last.key, v, Some(r.ret), view.kind)
    /\ view' = NoView

VacIntoKey ==
    /\ view.tag = "Vacant"
    /\ Apply(self)
    /\ view' = NoView
    /\ last' = Call("VacantEntry::into_key", last.key, NoVal, Some(view.key), view.kind)

\* the view goes out of scope
DropView ==
    /\ view.tag = "Occupied"
    /\ Apply(self)
    /\ view' = NoView
    /\ last' = Call("drop", last.key, NoVal, None, view.kind)

Next ==
    \/ \E k \in Keys : ContainsKey(k)
    \/ \E k \in Keys : Peek(k)
    \/ \E k \in Keys : Get(k)
    \/ \E k \in Keys, w \in Vals : GetMut(k, w)
    \/ \E k \in Keys, v \in Vals : Insert(k, v)
    \/ \E k \in Keys : Remove(k)
    \/ Clear
    \/ \E k \in Keys : EntryOp(k)
    \/ \E k \in Keys : PeekEntry(k)
    \/ OccGet
    \/ \E w \in Vals : OccGetMut(w)
    \/ \E v \in Vals : OccInsert(v)
    \/ OccRemoveEntry
    \/ \E d \in Vals : OrInsert(d)
    \/ \E v \in Vals : VacInsert(v)
    \/ VacIntoKey
    \/ DropView

\* ---- scenario B: a cache of the tests' size that only sees inserts, over
\*      enough keys to overflow recent three times ----
ScenarioKeys == 5

InitB ==
    /\ size = TestSize
    /\ constructed = new(TestSize).ok
    /\ frequent = new(TestSize).frequent
    /\ recent = new(TestSize).recent
    /\ ghost = new(TestSize).ghost
    /\ max_recent = new(TestSize).max_recent
    /\ max_frequent = new(TestSize).max_frequent
    /\ max_ghost = new(TestSize).max_ghost
    /\ view = NoView
    /\ last = [op |-> "new", key |-> 0, value |-> NoVal, ret |-> None, kind |-> "None",
                pre |-> [frequent |-> <<>>, recent |-> <<>>, ghost |-> <<>>],
                pre_view |-> NoView, lru |-> <<>>]

\* the scenario is about keys only: every insert stores the same value
NextB == \E k \in 1..ScenarioKeys : Insert(k, "a")

SpecB == InitB /\ [][NextB]_vars

Spec == Init /\ [][Next]_vars

(***************************************************************************)
(* Properties.  last.pre is the cache a call was made on, the variables    *)
(* hold the cache it left.                                                 *)
(***************************************************************************)

\* the keys a deque of entries holds, as a set and in order
KeysOf(s) == {s[i].key : i \in 1..Len(s)}
KeySeq(s) == [i \in 1..Len(s) |-> s[i].key]
ElemsOf(s) == {s[i] : i \in 1..Len(s)}

\* the entries of s other than key's, in the order s has them
Others(s, key) == SelectSeq(s, LAMBDA x : x.key # key)

\* the last call put a new entry in through the vacant-insert policy
VacantInsertCall ==
    /\ last.op \in {"insert", "VacantEntry::insert", "or_insert"}
    /\ last.kind \in {"Ghost", "Unknown"}

\* C1: the number of live entries, len(recent) + len(frequent), never exceeds
\* the size the cache was built with.
C1_LenWithinSize == constructed => len(self) <= size

\* C2: frequent never holds more than max_frequent = size - max(1, size / 4)
\* entries.
C2_FrequentWithinMax ==
    constructed =>
    /\ max_frequent = size - max(1, size \div 4)
    /\ Len(frequent) <= max_frequent

\* C3: ghost never holds more than max_ghost = size / 2 keys.
C3_GhostWithinMax ==
    constructed =>
    /\ max_ghost = size \div 2
    /\ Len(ghost) <= max_ghost

\* C4: recent never holds more than max_recent = max(1, size / 4) entries.
C4_RecentWithinMax ==
    constructed =>
    /\ max_recent = max(1, size \div 4)
    /\ Len(recent) <= max_recent

\* a first-time insert found recent full, and recent is full again after it
C4_Witness ==
    /\ VacantInsertCall
    /\ last.kind = "Unknown"
    /\ Len(last.pre.recent) = max_recent
    /\ Len(recent) = max_recent
    /\ max_recent = 2

\* C5: no key is in recent and in frequent at the same time.
C5_RecentFrequentDisjoint == KeysOf(recent) \cap KeysOf(frequent) = {}

\* a key has just been promoted from ghost to frequent while recent holds entries
C5_Witness ==
    /\ VacantInsertCall
    /\ last.kind = "Ghost"
    /\ Len(recent) > 0
    /\ Len(frequent) > 1

\* C6: an insert of a key that is neither live nor in ghost leaves frequent as
\* it was: same entries, same values, same order.
C6_UnknownInsertKeepsFrequent ==
    (VacantInsertCall /\ last.kind = "Unknown") => frequent = last.pre.frequent

\* a first-time insert evicted from a full recent while frequent held entries
C6_Witness ==
    /\ VacantInsertCall
    /\ last.kind = "Unknown"
    /\ Len(last.pre.recent) = max_recent
    /\ Len(last.pre.frequent) > 0
    /\ frequent = last.pre.frequent

C8_InsertThenGet ==
    last.op = "insert" =>
        /\ get(self, last.key).ret = Some(last.value)
        /\ peek(self, last.key) = Some(last.value)

\* an insert replaced a different value, or promoted a ghost key into a full frequent
C8_Witness ==
    /\ last.op = "insert"
    /\ \/ last.ret \notin {None, Some(last.value)}
       \/ last.kind = "Ghost" /\ Len(last.pre.frequent) + 1 > max_frequent
    /\ get(self, last.key).ret = Some(last.value)

\* C9: insert(k, v) on a live key returns the value stored before, stores v,
\* keeps k in its segment and leaves len(), the live keys and ghost as they
\* were; insert on a key that is not live returns None.
C9_UpdateInPlace ==
    last.op = "insert" =>
        IF contains_key(last.pre, last.key)
        THEN /\ last.ret = peek(last.pre, last.key)
             /\ peek(self, last.key) = Some(last.value)
             /\ (last.key \in KeysOf(recent)) = (last.key \in KeysOf(last.pre.recent))
             /\ (last.key \in KeysOf(frequent)) = (last.key \in KeysOf(last.pre.frequent))
             /\ len(self) = len(last.pre)
             /\ KeysOf(recent) \cup KeysOf(frequent)
                  = KeysOf(last.pre.recent) \cup KeysOf(last.pre.frequent)
             /\ ghost = last.pre.ghost
        ELSE last.ret = None

\* an insert replaced a different value of a key that was not at the front of frequent
C9_Witness ==
    /\ last.op = "insert"
    /\ last.kind = "Frequent"
    /\ position(last.pre.frequent, last.key) > 1
    /\ last.ret \notin {None, Some(last.value)}

\* C10: get and get_mut on a key in frequent move it to the front of frequent
\* and keep the order of the other entries; on a key in recent they leave the
\* order of recent, and frequent and ghost, as they were.
C10_ReadPromotion ==
    last.op \in {"get", "get_mut"} =>
        /\ last.kind = "Frequent" =>
              /\ KeySeq(frequent) = <<last.key>> \o KeySeq(Others(last.pre.frequent, last.key))
              /\ Others(frequent, last.key) = Others(last.pre.frequent, last.key)
              /\ recent = last.pre.recent
              /\ ghost = last.pre.ghost
        /\ last.kind = "Recent" =>
              /\ KeySeq(recent) = KeySeq(last.pre.recent)
              /\ Others(recent, last.key) = Others(last.pre.recent, last.key)
              /\ frequent = last.pre.frequent
              /\ ghost = last.pre.ghost
        /\ last.op = "get" =>
              ElemsOf(recent) \cup ElemsOf(frequent)
                  = ElemsOf(last.pre.recent) \cup ElemsOf(last.pre.frequent)

\* a get moved a key from behind the front of frequent to its front
C10_Witness ==
    /\ last.op = "get"
    /\ last.kind = "Frequent"
    /\ position(last.pre.frequent, last.key) > 1
    /\ frequent[1].key = last.key
    /\ frequent # last.pre.frequent

\* C11: remove(k) on a live key returns its value and makes k absent (a second
\* remove returns None), leaves ghost as it was and the other live entries in
\* their segments and order; the key inserted again lands in recent.
C11_RemoveLive ==
    (last.op = "remove" /\ contains_key(last.pre, last.key)) =>
        /\ last.ret = peek(last.pre, last.key)
        /\ last.ret # None
        /\ ~contains_key(self, last.key)
        /\ remove(self, last.key).ret = None
        /\ ghost = last.pre.ghost
        /\ recent = Others(last.pre.recent, last.key)
        /\ frequent = Others(last.pre.frequent, last.key)
        /\ \A v \in Vals :
              LET c == insert(self, last.key, v).cache
              IN /\ Len(c.recent) > 0
                 /\ c.recent[1] = CacheEntry(last.key, v)
                 /\ last.key \notin KeysOf(c.frequent)

\* a key was removed from the front of frequent, other entries staying live
C11_Witness ==
    /\ last.op = "remove"
    /\ last.kind = "Frequent"
    /\ position(last.pre.frequent, last.key) = 1
    /\ Len(frequent) > 0
    /\ Len(recent) > 0
    /\ ~contains_key(self, last.key)

\* C12: new(0) panics and yields no cache; new(size) with size >= 1 yields an
\* empty cache with max_recent = max(1, size / 4), max_frequent = size -
\* max_recent and max_ghost = size / 2, and these capacities never change.
C12_Construction ==
    /\ constructed = (size >= 1)
    /\ constructed =>
          /\ max_recent = (IF size \div 4 >= 1 THEN size \div 4 ELSE 1)
          /\ max_frequent = size - max_recent
          /\ max_ghost = size \div 2
          /\ max_recent + max_frequent = size
          /\ last.op = "new" => (frequent = <<>> /\ recent = <<>> /\ ghost = <<>>)

\* a cache built with size 8 has been filled and cleared, its capacities as built
C12_Witness ==
    /\ constructed
    /\ size = TestSize
    /\ last.op = "clear"
    /\ len(last.pre) > 2
    /\ max_recent = 2 /\ max_frequent = 6 /\ max_ghost = 4

\* C13: a cache built with new(1) never holds anything in frequent; and after
\* insert(100), insert(200), get(200) succeeds while get(100) returns None.
C13_SizeOne ==
    (constructed /\ size = 1) =>
        /\ frequent = <<>>
        /\ LET c0 == [frequent |-> <<>>, recent |-> <<>>, ghost |-> <<>>]
               c1 == insert(c0, 100, "a").cache
               c2 == insert(c1, 200, "b").cache
           IN /\ get(c2, 200).ret = Some("b")
              /\ get(get(c2, 200).cache, 100).ret = None

\* the keys of the three deques, front to back
Shape(c) == [r |-> KeySeq(c.recent), g |-> c.ghost, f |-> KeySeq(c.frequent)]

\* scenario B: the key inserted at each step, and the deques expected after it
ScenarioB_key == <<1, 2, 3, 4, 5, 1>>
ScenarioB_after ==
    << [r |-> <<1>>,    g |-> <<>>,        f |-> <<>>],
       [r |-> <<2, 1>>, g |-> <<>>,        f |-> <<>>],
       [r |-> <<3, 2>>, g |-> <<1>>,       f |-> <<>>],
       [r |-> <<4, 3>>, g |-> <<2, 1>>,    f |-> <<>>],
       [r |-> <<5, 4>>, g |-> <<3, 2, 1>>, f |-> <<>>],
       [r |-> <<5, 4>>, g |-> <<3, 2>>,    f |-> <<1>>] >>
ScenarioB_before(n) ==
    IF n = 1 THEN [r |-> <<>>, g |-> <<>>, f |-> <<>>] ELSE ScenarioB_after[n - 1]

\* C14: on a cache built with new(8) (max_recent 2, max_frequent 6, max_ghost
\* 4), inserting keys 1..5 in order leaves 5 and 4 in recent and 1, 2, 3 in
\* ghost; inserting key 1 again puts it at the front of frequent and takes it
\* out of ghost.  Each step of the scenario leads from the deques expected
\* before it to the deques expected after it.
C14_ScenarioB ==
    /\ max_recent = 2 /\ max_frequent = 6 /\ max_ghost = 4
    /\ \A n \in 1..Len(ScenarioB_key) :
          (/\ last.op = "insert"
           /\ last.key = ScenarioB_key[n]
           /\ Shape(last.pre) = ScenarioB_before(n))
             => Shape(self) = ScenarioB_after[n]

\* key 1 was inserted again after keys 1..5
C14_Witness ==
    /\ last.op = "insert"
    /\ last.key = 1
    /\ Shape(last.pre) = ScenarioB_after[5]
    /\ Shape(self) = ScenarioB_after[6]

\* the values stored for key among the live entries of c
Stored(c, key) == {x.value : x \in {y \in ElemsOf(c.recent) \cup ElemsOf(c.frequent) : y.key = key}}

\* C15: contains_key(k) and peek(k) change nothing in recent, frequent or
\* ghost, for any key; contains_key(k) is true exactly when k is in recent or
\* frequent, and peek(k) returns the stored value exactly then.
C15_PureReads ==
    last.op \in {"contains_key", "peek"} =>
        /\ self = last.pre
        /\ last.op = "contains_key" =>
              last.ret = Some(last.key \in KeysOf(recent) \cup KeysOf(frequent))
        /\ last.op = "peek" =>
              IF last.key \in KeysOf(recent) \cup KeysOf(frequent)
              THEN \E v \in Stored(self, last.key) : last.ret = Some(v)
              ELSE last.ret = None

\* peek read a key that is in recent while frequent and ghost hold other keys
C15_Witness ==
    /\ last.op = "peek"
    /\ last.kind = "Recent"
    /\ last.ret # None
    /\ Len(frequent) > 0
    /\ Len(ghost) > 0

\* C16: get, get_mut and remove on a key that is not live, also one that is
\* only in ghost, return None and leave recent, frequent and ghost as they were.
C16_MissChangesNothing ==
    (last.op \in {"get", "get_mut", "remove"} /\ ~contains_key(last.pre, last.key)) =>
        /\ last.ret = None
        /\ self = last.pre

\* a get missed a key that is in ghost
C16_Witness ==
    /\ last.op = "get"
    /\ last.kind = "Ghost"
    /\ last.key \in {ghost[i] : i \in 1..Len(ghost)}
    /\ last.ret = None

\* C17: entry(k) on a key in frequent leaves frequent as get(k) would: k at the
\* front, the others in their order; peek_entry(k) reorders nothing; entry(k)
\* on a key in recent, in ghost or unknown changes nothing.
C17_EntryPromotes ==
    /\ last.op = "entry" =>
          IF last.key \in KeysOf(last.pre.frequent)
          THEN /\ self = get(last.pre, last.key).cache
               /\ frequent[1].key = last.key
               /\ Others(frequent, last.key) = Others(last.pre.frequent, last.key)
               /\ Len(frequent) = Len(last.pre.frequent)
          ELSE self = last.pre
    /\ last.op = "peek_entry" => self = last.pre

\* entry moved a key from behind the front of frequent to its front
C17_Witness ==
    /\ last.op = "entry"
    /\ last.kind = "Frequent"
    /\ position(last.pre.frequent, last.key) > 1
    /\ frequent[1].key = last.key

\* the number of live entries c holds for key
Copies(c, key) ==
    Cardinality({i \in 1..Len(c.recent) : c.recent[i].key = key})
      + Cardinality({i \in 1..Len(c.frequent) : c.frequent[i].key = key})

\* C18: or_insert / or_insert_with on a live key return the stored value, do
\* not overwrite it with the default and leave len() and ghost as they were;
\* after any or_insert the key has exactly one live entry.
C18_OrInsertKeeps ==
    last.op = "or_insert" =>
        /\ Copies(self, last.key) = 1
        /\ last.pre_view.tag = "Occupied" =>
              /\ Stored(last.pre, last.key) = {last.ret[1]}
              /\ Stored(self, last.key) = {last.ret[1]}
              /\ len(self) = len(last.pre)
              /\ ghost = last.pre.ghost
              /\ self = last.pre

\* or_insert met a live key whose stored value differs from the default
C18_Witness ==
    /\ last.op = "or_insert"
    /\ last.pre_view.tag = "Occupied"
    /\ last.ret # Some(last.value)
    /\ Copies(self, last.key) = 1

\* a deque without its last element
Front(s) == [i \in 1..(Len(s) - 1) |-> s[i]]

\* the keys of ghost, as a set
GhostKeys(c) == {c.ghost[i] : i \in 1..Len(c.ghost)}

C20_GhostFedByRecentOnly ==
    /\ \A k \in GhostKeys(self) \ GhostKeys(last.pre) :
          /\ VacantInsertCall
          /\ last.kind = "Unknown"
          /\ Len(last.pre.recent) > 0
          /\ k = last.pre.recent[Len(last.pre.recent)].key
          /\ k \notin KeysOf(recent)
    /\ (VacantInsertCall /\ last.kind = "Ghost") =>
          /\ recent = last.pre.recent
          /\ GhostKeys(self) = GhostKeys(last.pre) \ {last.key}
          /\ (Len(last.pre.frequent) > 0 /\ Len(last.pre.frequent) + 1 > max_frequent) =>
                LET old == last.pre.frequent[Len(last.pre.frequent)].key
                IN /\ old \notin GhostKeys(self)
                   /\ old \notin KeysOf(recent) \cup KeysOf(frequent)

\* a ghost-promotion insert evicted another key from the back of a full frequent
C20_Witness ==
    /\ VacantInsertCall
    /\ last.kind = "Ghost"
    /\ Len(last.pre.frequent) > 0
    /\ Len(last.pre.frequent) + 1 > max_frequent
    /\ Len(frequent) = Len(last.pre.frequent)
    /\ frequent[1].key = last.key

\* C21: a key enters frequent only through an insert made while the key is in
\* ghost; get, get_mut, peek, entry and insert on a key in recent leave it in
\* recent and out of frequent.
C21_FrequentOnlyFromGhost ==
    /\ \A k \in KeysOf(frequent) \ KeysOf(last.pre.frequent) :
          /\ VacantInsertCall
          /\ last.kind = "Ghost"
          /\ last.key = k
          /\ k \in GhostKeys(last.pre)
    /\ (/\ last.op \in {"get", "get_mut", "peek", "entry", "insert"}
        /\ last.key \in KeysOf(last.pre.recent))
          => /\ last.key \in KeysOf(recent)
             /\ last.key \notin KeysOf(frequent)

\* a get hit a key in recent while frequent had room for it
C21_Witness ==
    /\ last.op = "get"
    /\ last.kind = "Recent"
    /\ last.ret # None
    /\ Len(frequent) < max_frequent
    /\ last.key \in KeysOf(recent)

C23_KeysUnique ==
    Len(recent) + Len(frequent) + Len(ghost)
        = Cardinality(KeysOf(recent) \cup KeysOf(frequent) \cup GhostKeys(self))

\* an Unknown insert evicted a key into ghost while all three deques hold keys
C23_Witness ==
    /\ VacantInsertCall
    /\ last.kind = "Unknown"
    /\ Len(ghost) > Len(last.pre.ghost)
    /\ Len(recent) > 0
    /\ Len(frequent) > 0

\* C24: the index of an occupied view designates the key the view was made
\* for: get, insert and remove_entry through the view read, replace and remove
\* the entry of that key, also after entry(k) moved a frequent hit to the
\* front, and remove_entry leaves the other live entries and ghost as they were.
C24_ViewIndexDesignatesKey ==
    /\ view.tag = "Occupied" =>
          /\ view.idx \in 1..Len(IF view.kind = "Recent" THEN recent ELSE frequent)
          /\ (IF view.kind = "Recent" THEN recent ELSE frequent)[view.idx].key = last.key
    /\ last.op = "OccupiedEntry::get" =>
          /\ last.ret[1] = last.key
          /\ Stored(self, last.key) = {last.ret[2]}
          /\ self = last.pre
    /\ last.op = "OccupiedEntry::insert" =>
          /\ Stored(last.pre, last.key) = {last.ret[1]}
          /\ Stored(self, last.key) = {last.value}
          /\ Others(recent, last.key) = Others(last.pre.recent, last.key)
          /\ Others(frequent, last.key) = Others(last.pre.frequent, last.key)
          /\ KeySeq(recent) = KeySeq(last.pre.recent)
          /\ KeySeq(frequent) = KeySeq(last.pre.frequent)
          /\ ghost = last.pre.ghost
    /\ last.op = "OccupiedEntry::remove_entry" =>
          /\ last.ret[1] = last.key
          /\ Stored(last.pre, last.key) = {last.ret[2]}
          /\ ~contains_key(self, last.key)
          /\ recent = Others(last.pre.recent, last.key)
          /\ frequent = Others(last.pre.frequent, last.key)
          /\ ghost = last.pre.ghost

\* remove_entry through a view on the front of frequent, made where another
\* entry stays behind
C24_Witness ==
    /\ last.op = "OccupiedEntry::remove_entry"
    /\ last.kind = "Frequent"
    /\ last.pre_view.idx = 1
    /\ Len(frequent) > 0
    /\ last.ret[1] = last.key

\* the last call stored last.value for last.key through an insert: Cache::insert,
\* a vacant insert, or OccupiedEntry::insert
WroteByInsert ==
    \/ last.op \in {"insert", "VacantEntry::insert", "OccupiedEntry::insert"}
    \/ last.op = "or_insert" /\ last.pre_view.tag = "Vacant"

\* the last call stored last.value for last.key through the &mut V it returned
WroteByReference ==
    \/ last.op = "get_mut" /\ last.ret # None
    \/ last.op = "OccupiedEntry::get_mut"

\* every live key holds the value the last call wrote for it, when wrote says
\* it wrote, and the value it held before otherwise
ValuesFollowWrites(wrote) ==
    \A k \in KeysOf(recent) \cup KeysOf(frequent) :
        IF wrote /\ last.key = k
        THEN Stored(self, k) = {last.value}
        ELSE /\ contains_key(last.pre, k)
             /\ Stored(self, k) = Stored(last.pre, k)

\* C25 as stated: the value of every live key is the value most recently
\* written for it by insert, a vacant insert or an occupied-view insert; no
\* other step changes the value of a live key.
C25_ValuesFollowInserts == ValuesFollowWrites(WroteByInsert)

\* C25, amended: the value of every live key is the value most recently
\* written for it by insert, a vacant insert, an occupied-view insert, or a
\* store through the mutable reference of get_mut / OccupiedEntry::get_mut;
\* evictions, promotions, reorderings and operations on other keys change no
\* value of a live key.
C25_ValuesFollowWritesAndStores == ValuesFollowWrites(WroteByInsert \/ WroteByReference)

\* a store through get_mut changed the value of a key behind the front of
\* frequent, the other entries living on
C25_Witness ==
    /\ last.op = "get_mut"
    /\ last.kind = "Frequent"
    /\ position(last.pre.frequent, last.key) > 1
    /\ last.ret # Some(last.value)
    /\ Stored(self, last.key) = {last.value}
    /\ Len(recent) > 0

\* C26: for a cache built with size >= 2 the three bounds len(recent) <=
\* max_recent, len(frequent) <= max_frequent and len(ghost) <= max_ghost hold
\* after every operation.
C26_BoundsFromSizeTwo ==
    (constructed /\ size >= 2) =>
        /\ max_frequent >= 1
        /\ max_ghost >= 1
        /\ Len(recent) <= max_recent
        /\ Len(frequent) <= max_frequent
        /\ Len(ghost) <= max_ghost

\* a ghost promotion into a full frequent, with recent full too
C26_Witness ==
    /\ size >= 2
    /\ VacantInsertCall
    /\ last.kind = "Ghost"
    /\ Len(last.pre.frequent) = max_frequent
    /\ Len(frequent) = max_frequent
    /\ Len(recent) = max_recent

====
